---- MODULE Spec2Model ----
(***************************************************************************)
(* A model of roy, a simulator of an AI-completion HTTP API: the quota     *)
(* tracker and content generator of server_state.rs and the request        *)
(* pipelines of chat_completions.rs and responses.rs.                      *)
(*                                                                         *)
(* Time is counted in ticks, TicksPerSecond ticks to a second, so that the *)
(* whole-second rounding of the reset headers is not the identity.         *)
(* Strings are sequences of one-character strings.  An Option<T> is a      *)
(* sequence of length at most one: <<>> is None, <<x>> is Some(x).         *)
(***************************************************************************)
EXTENDS Integers, Sequences, FiniteSets, TLC

\* ------------------------------------------------------------- bounds
NProcs == 2
TicksPerSecond == 2
MaxWindows == 1
MaxOffset == 1
MaxRpm == 2
MaxTpm == 3
MaxPromptTokens == 1
MaxCompletionTokens == 2

\* ------------------------------------------------- program constants
WindowSeconds == 60
DrawBound == 100
DefaultRangeMax == 100
InternalServerError == 500
TooManyRequests == 429
NoContent == 204
StatusOk == 200

Window == WindowSeconds * TicksPerSecond
Procs == 1..NProcs
TimePoints == {w * Window + d : w \in 0..MaxWindows, d \in 0..MaxOffset}

None == <<>>
Some(x) == <<x>>

Min(a, b) == IF a < b THEN a ELSE b

VARIABLES
    args,                    \* the parsed command line, fixed at startup
    now,                     \* the system clock, in ticks
    request_timestamps,      \* VecDeque<SystemTime>
    token_usage_timestamps,  \* VecDeque<(SystemTime, u32)>
    request_lock,            \* holder of request_timestamps' mutex, 0 if free
    token_lock,              \* holder of token_usage_timestamps' mutex, 0 if free
    pc,                      \* each handler's position
    loc,                     \* each handler's local variables
    resp,                    \* the response each handler returned
    stream,                  \* the events the response body has still to yield
    sent                     \* the events the consumer has received

vars == <<args, now, request_timestamps, token_usage_timestamps,
          request_lock, token_lock, pc, loc, resp, stream, sent>>

\* ------------------------------------------------------------ strings
Digits == <<"0", "1", "2", "3", "4", "5", "6", "7", "8", "9">>

IsDigit(c) == \E i \in 1..10 : Digits[i] = c

DigitVal(c) == (CHOOSE i \in 1..10 : Digits[i] = c) - 1

\* <usize as FromStr>::from_str: an optional '+', then one or more digits
RECURSIVE ParseDigits(_, _)
ParseDigits(s, acc) ==
    IF s = <<>> THEN Some(acc)
    ELSE IF IsDigit(Head(s)) THEN ParseDigits(Tail(s), acc * 10 + DigitVal(Head(s)))
    ELSE None

ParseUsize(s) ==
    IF s = <<>> THEN None
    ELSE IF Head(s) = "+" THEN (IF Tail(s) = <<>> THEN None ELSE ParseDigits(Tail(s), 0))
    ELSE ParseDigits(s, 0)

UnwrapOr(opt, default) == IF opt = None THEN default ELSE opt[1]

\* str::find(':'): the index of the first colon, 0 when there is none
RECURSIVE FindColon(_, _)
FindColon(s, i) ==
    IF i > Len(s) THEN 0
    ELSE IF s[i] = ":" THEN i
    ELSE FindColon(s, i + 1)

\* u16::to_string / u32::to_string
RECURSIVE to_string(_)
to_string(n) ==
    IF n < 10 THEN <<Digits[n + 1]>>
    ELSE to_string(n \div 10) \o <<Digits[(n % 10) + 1]>>

IsWhitespace(c) == c = " "

\* str::split_whitespace().collect(): the maximal runs of non-whitespace
RECURSIVE SplitFrom(_, _, _)
SplitFrom(s, i, word) ==
    IF i > Len(s) THEN (IF word = <<>> THEN <<>> ELSE <<word>>)
    ELSE IF IsWhitespace(s[i])
         THEN (IF word = <<>> THEN <<>> ELSE <<word>>) \o SplitFrom(s, i + 1, <<>>)
         ELSE SplitFrom(s, i + 1, Append(word, s[i]))

SplitWhitespace(s) == SplitFrom(s, 1, <<>>)

\* String::truncate(new_len): no effect when new_len exceeds the length
Truncate(s, new_len) == IF new_len < Len(s) THEN SubSeq(s, 1, new_len) ELSE s

\* ------------------------------------------------- content generator
\* The opening of the lorem ipsum text that lipsum::lipsum always starts with.
LoremWords ==
    << <<"L", "o", "r", "e", "m">>,
       <<"i", "p", "s", "u", "m">>,
       <<"d", "o", "l", "o", "r">>,
       <<"s", "i", "t">>,
       <<"a", "m", "e", "t", ",">>,
       <<"c", "o", "n", "s", "e", "c", "t", "e", "t", "u", "r">>,
       <<"a", "d", "i", "p", "i", "s", "c", "i", "n", "g">>,
       <<"e", "l", "i", "t", ",">> >>

IsSentenceEnd(c) == c \in {".", "!", "?"}

IsPunctuation(c) == c \in {".", "!", "?", ",", ";", ":"}

RECURSIVE JoinWords(_, _)
JoinWords(words, n) ==
    IF n = 0 THEN <<>>
    ELSE IF n = 1 THEN words[1]
    ELSE JoinWords(words, n - 1) \o <<" ">> \o words[n]

RECURSIVE TrimEndPunctuation(_)
TrimEndPunctuation(s) ==
    IF s # <<>> /\ IsPunctuation(s[Len(s)])
    THEN TrimEndPunctuation(SubSeq(s, 1, Len(s) - 1))
    ELSE s

\* lipsum::lipsum(n): n words joined by single spaces, the sentence closed by
\* a full stop; the empty string for n = 0
Lipsum(n) ==
    LET sentence == JoinWords(LoremWords, n)
    IN  IF n = 0 THEN <<>>
        ELSE IF IsSentenceEnd(sentence[Len(sentence)]) THEN sentence
        ELSE Append(TrimEndPunctuation(sentence), ".")

WordLen == 5

generate_lorem_content(length) ==
    IF length = 0 THEN <<>>
    ELSE LET word_count == length \div WordLen
             content == Lipsum(word_count)
         IN  Truncate(content, length)

\* count_tokens: the cl100k_base encoding gives the empty text no token and a
\* non-empty text at least one token and at most one per byte; which count a
\* text gets is the tokenizer's, so the handler draws it from this set.
TokenCounts(text) ==
    IF text = <<>> THEN {0} ELSE 1..Min(Len(text), MaxCompletionTokens)


\* ------------------------------------------------------ fault injector
\* should_return_error with the draw compared one off (draw + 1 < rate)
should_return_error_off_by_one(draw) ==
    IF args.error_code # None /\ args.error_rate # None
    THEN (IF draw + 1 < args.error_rate[1] THEN Some(args.error_code[1]) ELSE None)
    ELSE None

\* should_return_error with the comparison draw <= rate
should_return_error_inclusive(draw) ==
    IF args.error_code # None /\ args.error_rate # None
    THEN (IF draw <= args.error_rate[1] THEN Some(args.error_code[1]) ELSE None)
    ELSE None

\* should_return_error, for the draw rng.gen_range(0..100)
should_return_error(draw) ==
    IF args.error_code # None /\ args.error_rate # None
    THEN (IF draw < args.error_rate[1] THEN Some(args.error_code[1]) ELSE None)
    ELSE None

\* StatusCode::from_u16(code).unwrap_or(StatusCode::INTERNAL_SERVER_ERROR)
MinStatusCode == 100
MaxStatusCode == 999

StatusFromU16Unchecked(code) == code

StatusFromU16(code) ==
    IF code >= MinStatusCode /\ code <= MaxStatusCode THEN code ELSE InternalServerError

\* get_response_length drawing from 0..=max, the lower end ignored
get_response_length_from_zero ==
    IF args.response_length = None THEN {0}
    ELSE LET length_str == args.response_length[1]
             pos == FindColon(length_str, 1)
         IN  IF pos # 0
             THEN LET min == UnwrapOr(ParseUsize(SubSeq(length_str, 1, pos - 1)), 0)
                      max == UnwrapOr(ParseUsize(SubSeq(length_str, pos + 1, Len(length_str))),
                                      DefaultRangeMax)
                  IN  0..max
             ELSE {UnwrapOr(ParseUsize(length_str), 0)}

\* get_response_length: the set of values the call can return
get_response_length ==
    IF args.response_length = None THEN {0}
    ELSE LET length_str == args.response_length[1]
             pos == FindColon(length_str, 1)
         IN  IF pos # 0
             THEN LET min == UnwrapOr(ParseUsize(SubSeq(length_str, 1, pos - 1)), 0)
                      max == UnwrapOr(ParseUsize(SubSeq(length_str, pos + 1, Len(length_str))),
                                      DefaultRangeMax)
                  IN  min..max
             ELSE {UnwrapOr(ParseUsize(length_str), 0)}

\* -------------------------------------------------------- quota tracker
\* PopExpired as a fixed window would do it: once the front has expired the
\* whole queue is dropped
PopExpiredReset(timestamps, cutoff) ==
    IF timestamps # <<>> /\ Head(timestamps) < cutoff THEN <<>> ELSE timestamps

\* PopExpired with the comparison *front <= cutoff
RECURSIVE PopExpiredInclusive(_, _)
PopExpiredInclusive(timestamps, cutoff) ==
    IF timestamps # <<>> /\ Head(timestamps) <= cutoff
    THEN PopExpiredInclusive(Tail(timestamps), cutoff)
    ELSE timestamps

\* PopExpired discarding nothing
PopExpiredNever(timestamps, cutoff) == timestamps

\* PopExpiredTokens popping every entry, expired or not
PopExpiredTokensAll(timestamps, cutoff) == <<>>

\* while let Some(front) = timestamps.front() { if *front < cutoff { pop_front } else { break } }
RECURSIVE PopExpired(_, _)
PopExpired(timestamps, cutoff) ==
    IF timestamps # <<>> /\ Head(timestamps) < cutoff
    THEN PopExpired(Tail(timestamps), cutoff)
    ELSE timestamps

RECURSIVE PopExpiredTokens(_, _)
PopExpiredTokens(timestamps, cutoff) ==
    IF timestamps # <<>> /\ Head(timestamps)[1] < cutoff
    THEN PopExpiredTokens(Tail(timestamps), cutoff)
    ELSE timestamps

\* token_timestamps.iter().map(|(_, tokens)| tokens).sum()
RECURSIVE SumTokens(_)
SumTokens(timestamps) ==
    IF timestamps = <<>> THEN 0 ELSE Head(timestamps)[2] + SumTokens(Tail(timestamps))

\* SaturatingSub as a plain subtraction, which goes below zero
SaturatingSubPlain(a, b) == a - b

\* u32::saturating_sub
SaturatingSub(a, b) == IF a >= b THEN a - b ELSE 0

\* SystemTime::duration_since(earlier).unwrap_or(Duration::ZERO)
DurationSinceOrZero(later, earlier) == IF later >= earlier THEN later - earlier ELSE 0

\* AsSecs rounding up to the next whole second
AsSecsCeil(duration) == (duration + TicksPerSecond - 1) \div TicksPerSecond

\* Duration::as_secs
AsSecs(duration) == duration \div TicksPerSecond

\* increment_request_count with push_front in place of push_back
increment_request_count_push_front(timestamps, t) ==
    <<t>> \o PopExpired(timestamps, t - Window)

\* increment_request_count pushing the request twice
increment_request_count_twice(timestamps, t) ==
    Append(Append(PopExpired(timestamps, t - Window), t), t)

\* increment_request_count, under the mutex, at time t
increment_request_count(timestamps, t) == Append(PopExpired(timestamps, t - Window), t)

\* add_token_usage counting the mock reasoning tokens too
add_token_usage_surcharged(timestamps, t, tokens) ==
    Append(PopExpiredTokens(timestamps, t - Window), <<t, tokens + 128>>)

\* add_token_usage, under the mutex, at time t
add_token_usage(timestamps, t, tokens) ==
    Append(PopExpiredTokens(timestamps, t - Window), <<t, tokens>>)

\* check_request_limit_exceeded is called by the handlers and not defined in
\* server_state.rs: the request-axis check of the quota tracker on the
\* window already cleared of its expired entries (count + 1 > limit).
check_request_limit_exceeded(timestamps) == Len(timestamps) + 1 > args.rpm

\* check_token_limit_exceeded(tokens), likewise (count + magnitude > limit)
check_token_limit_exceeded(timestamps, tokens) == SumTokens(timestamps) + tokens > args.tpm

\* RequestHeaders with the remaining budget taken without saturation from one
\* count too few
RequestHeadersOffByOne(timestamps, t) ==
    [limit_requests |-> args.rpm,
     remaining_requests |-> SaturatingSub(args.rpm + 1, Len(timestamps)),
     reset_requests |-> 0]

\* get_rate_limit_headers, the request half, on the pruned queue
RequestHeaders(timestamps, t) ==
    LET request_count == Len(timestamps)
        limit == args.rpm
        remaining == SaturatingSub(limit, request_count)
        reset_duration ==
            IF request_count < limit THEN 0
            ELSE IF timestamps # <<>>
                 THEN DurationSinceOrZero(Head(timestamps) + Window, t)
                 ELSE 0
    IN  [limit_requests |-> limit,
         remaining_requests |-> remaining,
         reset_requests |-> AsSecs(reset_duration)]

\* get_rate_limit_headers, the token half, on the pruned queue
TokenHeaders(timestamps, t) ==
    LET current_token_usage == SumTokens(timestamps)
        token_limit == args.tpm
        remaining_tokens == SaturatingSub(token_limit, current_token_usage)
        token_reset_duration ==
            IF current_token_usage < token_limit THEN 0
            ELSE IF timestamps # <<>>
                 THEN DurationSinceOrZero(Head(timestamps)[1] + Window, t)
                 ELSE 0
    IN  [limit_tokens |-> token_limit,
         remaining_tokens |-> remaining_tokens,
         reset_tokens |-> AsSecs(token_reset_duration)]


\* ------------------------------------------------------- configuration
\* --error-code / --error-rate pairs of the command line
ErrorConfigs ==
    { <<None, None>>, <<Some(503), Some(100)>>, <<Some(503), Some(50)>> }

\* --response-length values of the command line
LengthConfigs == { Some(<<"6">>), Some(<<"0", ":", "5">>) }

ArgsSet ==
    { [rpm |-> r, tpm |-> MaxTpm, error_code |-> e[1], error_rate |-> e[2],
       response_length |-> l] :
      r \in 1..MaxRpm, e \in ErrorConfigs, l \in LengthConfigs }

Endpoints == {"chat_completions", "responses"}

\* -------------------------------------------------------------- state
\* Response { ..Default::default() }: no output item, no usage
NoResponse == [status |-> "", created_at |-> 0, output |-> <<>>, usage |-> None]

NoPayload == [endpoint |-> "none", stream |-> FALSE]

IdleLoc ==
    [payload |-> NoPayload,
     site |-> "none",
     error_code |-> 0,
     response_length |-> 0,
     content |-> <<>>,
     prompt_tokens |-> 0,
     completion_tokens |-> 0,
     total_tokens |-> 0,
     hdr_now |-> 0,
     headers |-> None,
     counted |-> 0,
     tokens_added |-> 0,
     phase |-> "none",
     sequence_number |-> 0,
     response |-> NoResponse,
     chunks |-> <<>>]

Init ==
    /\ args \in ArgsSet
    /\ now = 0
    /\ request_timestamps = <<>>
    /\ token_usage_timestamps = <<>>
    /\ request_lock = 0
    /\ token_lock = 0
    /\ pc = [p \in Procs |-> "idle"]
    /\ loc = [p \in Procs |-> IdleLoc]
    /\ resp = [p \in Procs |-> None]
    /\ stream = [p \in Procs |-> <<>>]
    /\ sent = [p \in Procs |-> <<>>]

\* ----------------------------------------------------------- responses
RateLimitCode == <<"rate_limit_exceeded">>

ErrorBody(type, code) == [kind |-> "error", type |-> type, code |-> code]

Usage(l) ==
    [prompt_tokens |-> l.prompt_tokens,
     completion_tokens |-> l.completion_tokens,
     total_tokens |-> l.total_tokens]

\* ResponseOutputText
OutputText(text) == [type |-> "output_text", text |-> text]

\* OutputMessage never marked completed
OutputMessageInProgress(content, status) ==
    [type |-> "message", content |-> content, role |-> "assistant",
     status |-> "in_progress"]

\* ResponseOutputMessage
OutputMessage(content, status) ==
    [type |-> "message", content |-> content, role |-> "assistant", status |-> status]

\* ResponseReasoningItem
ReasoningItem == [type |-> "reasoning", summary |-> <<>>, status |-> None]

\* ResponseUsage
ResponseUsage(input_tokens, output_tokens, reasoning_tokens, total_tokens) ==
    [input_tokens |-> input_tokens, output_tokens |-> output_tokens,
     reasoning_tokens |-> reasoning_tokens, total_tokens |-> total_tokens]

\* the ChatCompletionResponse of chat_completions
ChatCompletionResponse(l) ==
    [kind |-> "chat_completions",
     object |-> "chat.completion",
     choices |-> <<[index |-> 0,
                    message |-> [role |-> "assistant", content |-> l.content],
                    finish_reason |-> "stop"]>>,
     usage |-> Usage(l)]

\* ResponsesResponse with the reasoning item of the streaming branch in front
ResponsesResponseWithReasoning(l) ==
    [kind |-> "responses",
     object |-> "response",
     status |-> "completed",
     output |-> <<ReasoningItem, OutputMessage(<<OutputText(l.content)>>, "completed")>>,
     usage |-> Some(ResponseUsage(l.prompt_tokens, l.completion_tokens, 0,
                                  l.total_tokens))]

\* the Response of the non-streaming branch of responses
ResponsesResponse(l) ==
    [kind |-> "responses",
     object |-> "response",
     status |-> "completed",
     output |-> <<OutputMessage(<<OutputText(l.content)>>, "completed")>>,
     usage |-> Some(ResponseUsage(l.prompt_tokens, l.completion_tokens, 0,
                                  l.total_tokens))]

JsonBody(l) ==
    IF l.payload.endpoint = "chat_completions"
    THEN ChatCompletionResponse(l)
    ELSE ResponsesResponse(l)

\* the (status, headers, body) the handler returns at the return site l.site
ResponseAt(l) ==
    CASE l.site = "request_limit" ->
            [status |-> TooManyRequests, headers |-> l.headers,
             body |-> ErrorBody("rate_limit_error", RateLimitCode)]
      [] l.site = "fault" ->
            [status |-> StatusFromU16(l.error_code), headers |-> l.headers,
             body |-> ErrorBody("api_error", to_string(l.error_code))]
      [] l.site = "no_content" ->
            [status |-> NoContent, headers |-> l.headers, body |-> [kind |-> "empty"]]
      [] l.site = "token_limit" ->
            [status |-> TooManyRequests, headers |-> l.headers,
             body |-> ErrorBody("rate_limit_error", RateLimitCode)]
      [] l.site = "json" ->
            [status |-> StatusOk, headers |-> l.headers, body |-> JsonBody(l)]
      [] l.site = "sse" ->
            \* Sse::new(stream).into_response(): the header map is not attached
            [status |-> StatusOk, headers |-> None, body |-> [kind |-> "sse"]]

\* the response, with the return site that produced it and what the request
\* had pushed on the two queues by then
BuildResponse(l) ==
    ResponseAt(l) @@
    [site |-> l.site, endpoint |-> l.payload.endpoint,
     counted |-> l.counted, tokens_added |-> l.tokens_added]

\* ------------------------------------------------- Protocol A events
ChatChunk(created, delta, finish_reason, usage) ==
    [object |-> "chat.completion.chunk", created |-> created, delta |-> delta,
     finish_reason |-> finish_reason, usage |-> usage]

DoneEvent == [data |-> "[DONE]"]

\* ContentChunks with the word alone as the delta, no trailing space
RECURSIVE ContentChunksNoSpace(_, _)
ContentChunksNoSpace(words, created) ==
    IF words = <<>> THEN <<>>
    ELSE <<ChatChunk(created, [role |-> None, content |-> Some(Head(words))], None, None)>>
         \o ContentChunksNoSpace(Tail(words), created)

RECURSIVE ContentChunks(_, _)
ContentChunks(words, created) ==
    IF words = <<>> THEN <<>>
    ELSE <<ChatChunk(created, [role |-> None, content |-> Some(Head(words) \o <<" ">>)],
                     None, None)>>
         \o ContentChunks(Tail(words), created)

\* ChatStreamEvents with the sentinel pushed a second time
ChatStreamEventsTwoSentinels(content, usage, created) ==
    LET words == SplitWhitespace(content)
        first_chunk == ChatChunk(created, [role |-> Some("assistant"), content |-> None],
                                 None, None)
        final_chunk == ChatChunk(created, [role |-> None, content |-> None],
                                 Some("stop"), Some(usage))
    IN  <<first_chunk>> \o ContentChunks(words, created)
        \o <<final_chunk, DoneEvent, DoneEvent>>

\* the events vector chat_completions builds for a streaming request
ChatStreamEvents(content, usage, created) ==
    LET words == SplitWhitespace(content)
        first_chunk == ChatChunk(created, [role |-> Some("assistant"), content |-> None],
                                 None, None)
        final_chunk == ChatChunk(created, [role |-> None, content |-> None],
                                 Some("stop"), Some(usage))
    IN  <<first_chunk>> \o ContentChunks(words, created) \o <<final_chunk, DoneEvent>>

\* ------------------------------------------------- Protocol B events
ReasoningTokens == 128

ChunkSize == 5

\* Chunks keeping the full chunks only
RECURSIVE ChunksDropRemainder(_, _)
ChunksDropRemainder(bytes, size) ==
    IF Len(bytes) < size THEN <<>>
    ELSE <<SubSeq(bytes, 1, size)>>
         \o ChunksDropRemainder(SubSeq(bytes, size + 1, Len(bytes)), size)

\* content.as_bytes().chunks(5)
RECURSIVE Chunks(_, _)
Chunks(bytes, size) ==
    IF bytes = <<>> THEN <<>>
    ELSE IF Len(bytes) <= size THEN <<bytes>>
    ELSE <<SubSeq(bytes, 1, size)>> \o Chunks(SubSeq(bytes, size + 1, Len(bytes)), size)

\* ResponseEvent with the sequence number left at its initial value
ResponseEventNumberZero(type, sequence_number, response) ==
    [type |-> type, sequence_number |-> 0, response |-> response]

\* ResponseEvent
ResponseEvent(type, sequence_number, response) ==
    [type |-> type, sequence_number |-> sequence_number, response |-> response]

\* OutputItemEvent with the type of the added event in the done event too
OutputItemEventAdded(type, sequence_number, output_index, item) ==
    [type |-> "response.output_item.added", sequence_number |-> sequence_number,
     output_index |-> output_index, item |-> item]

\* ResponseOutputItemAddedEvent, ResponseOutputItemDoneEvent
OutputItemEvent(type, sequence_number, output_index, item) ==
    [type |-> type, sequence_number |-> sequence_number,
     output_index |-> output_index, item |-> item]

\* ResponseContentPartAddedEvent, ResponseContentPartDoneEvent
ContentPartEvent(type, sequence_number, part) ==
    [type |-> type, sequence_number |-> sequence_number,
     output_index |-> 1, content_index |-> 0, part |-> part]

\* ResponseTextDeltaEvent
TextDeltaEvent(sequence_number, delta) ==
    [type |-> "response.output_text.delta", sequence_number |-> sequence_number,
     output_index |-> 1, content_index |-> 0, delta |-> delta]

\* ResponseTextDoneEvent
TextDoneEvent(sequence_number, text) ==
    [type |-> "response.output_text.done", sequence_number |-> sequence_number,
     output_index |-> 1, content_index |-> 0, text |-> text]

\* NewResponsesStream with the usage of the non-streaming branch in the
\* initial snapshot
NewResponsesStreamWithUsage(l, created_at) ==
    [l EXCEPT !.phase = "start", !.sequence_number = 0,
              !.response = [NoResponse EXCEPT
                               !.created_at = created_at,
                               !.usage = Some(ResponseUsage(l.prompt_tokens,
                                                            l.completion_tokens, 0,
                                                            l.total_tokens))],
              !.chunks = <<>>]

\* the locals of the stream! block when the handler returns it: nothing of the
\* block has run yet
NewResponsesStream(l, created_at) ==
    [l EXCEPT !.phase = "start", !.sequence_number = 0,
              !.response = [NoResponse EXCEPT !.created_at = created_at],
              !.chunks = <<>>]

\* One poll of the stream! block: it runs from where it stands (l.phase) to
\* its next yield.  The result is the event yielded and the locals at the
\* yield; l.phase names the yield the block is suspended at.
ResponsesStreamPoll(l) ==
    LET n == l.sequence_number
        r == l.response
    IN  CASE l.phase = "start" ->
                LET response == [r EXCEPT !.status = "in_progress"]
                IN  [event |-> ResponseEvent("response.created", 0, response),
                     loc |-> [l EXCEPT !.phase = "created", !.sequence_number = 0,
                                       !.response = response]]
          [] l.phase = "created" ->
                [event |-> ResponseEvent("response.in_progress", n + 1, r),
                 loc |-> [l EXCEPT !.phase = "in_progress", !.sequence_number = n + 1]]
          [] l.phase = "in_progress" ->
                [event |-> OutputItemEvent("response.output_item.added", n + 1, 0,
                                           ReasoningItem),
                 loc |-> [l EXCEPT !.phase = "reasoning_added",
                                   !.sequence_number = n + 1,
                                   !.response.output = Append(@, ReasoningItem)]]
          [] l.phase = "reasoning_added" ->
                [event |-> OutputItemEvent("response.output_item.done", n + 1, 0,
                                           ReasoningItem),
                 loc |-> [l EXCEPT !.phase = "reasoning_done", !.sequence_number = n + 1]]
          [] l.phase = "reasoning_done" ->
                LET message_item == OutputMessage(<<>>, "in_progress")
                IN  [event |-> OutputItemEvent("response.output_item.added", n + 1, 1,
                                               message_item),
                     loc |-> [l EXCEPT !.phase = "message_added",
                                       !.sequence_number = n + 1,
                                       !.response.output = Append(@, message_item)]]
          [] l.phase = "message_added" ->
                LET part == OutputText(<<>>)
                IN  [event |-> ContentPartEvent("response.content_part.added", n + 1, part),
                     loc |-> [l EXCEPT !.phase = "part_added",
                                       !.sequence_number = n + 1,
                                       !.response.output[2].content = Append(@, part)]]
          [] l.phase \in {"part_added", "text_delta"} ->
                LET chunks == IF l.phase = "part_added"
                              THEN Chunks(l.content, ChunkSize)
                              ELSE l.chunks
                IN  IF chunks # <<>>
                    THEN [event |-> TextDeltaEvent(n + 1, Head(chunks)),
                          loc |-> [l EXCEPT !.phase = "text_delta",
                                            !.sequence_number = n + 1,
                                            !.chunks = Tail(chunks)]]
                    ELSE [event |-> TextDoneEvent(n + 1, l.content),
                          loc |-> [l EXCEPT !.phase = "text_done",
                                            !.sequence_number = n + 1,
                                            !.chunks = <<>>,
                                            !.response.output[2].content[1].text =
                                                l.content]]
          [] l.phase = "text_done" ->
                [event |-> ContentPartEvent("response.content_part.done", n + 1,
                                            OutputText(l.content)),
                 loc |-> [l EXCEPT !.phase = "part_done", !.sequence_number = n + 1]]
          [] l.phase = "part_done" ->
                LET final_message_item ==
                        OutputMessage(<<OutputText(l.content)>>, "completed")
                IN  [event |-> OutputItemEvent("response.output_item.done", n + 1, 1,
                                               final_message_item),
                     loc |-> [l EXCEPT !.phase = "message_done",
                                       !.sequence_number = n + 1,
                                       !.response.output[2] = final_message_item]]
          [] l.phase = "message_done" ->
                LET response ==
                        [r EXCEPT !.status = "completed",
                                  !.usage = Some(ResponseUsage(
                                      l.prompt_tokens,
                                      l.completion_tokens + ReasoningTokens,
                                      ReasoningTokens,
                                      l.total_tokens + ReasoningTokens))]
                IN  [event |-> ResponseEvent("response.completed", n + 1, response),
                     loc |-> [l EXCEPT !.phase = "completed",
                                       !.sequence_number = n + 1,
                                       !.response = response]]
          [] l.phase = "completed" ->
                [event |-> DoneEvent,
                 loc |-> [l EXCEPT !.phase = "sentinel"]]

\* ------------------------------------------------------------- actions
\* the clock moves on
Tick ==
    /\ \E t \in TimePoints : t > now /\ now' = t
    /\ UNCHANGED <<args, request_timestamps, token_usage_timestamps,
                   request_lock, token_lock, pc, loc, resp, stream, sent>>

\* a request arrives at one of the two endpoints; the stream flag of its
\* payload is drawn where the handler reads it, after add_token_usage
Start(p) ==
    /\ pc[p] = "idle"
    /\ \E e \in Endpoints :
          loc' = [loc EXCEPT ![p].payload = [endpoint |-> e, stream |-> FALSE]]
    /\ pc' = [pc EXCEPT ![p] = "check_request"]
    /\ UNCHANGED <<args, now, request_timestamps, token_usage_timestamps,
                   request_lock, token_lock, resp, stream, sent>>

\* if state.check_request_limit_exceeded() { ... return 429 }
CheckRequestLimit(p) ==
    /\ pc[p] = "check_request"
    /\ request_lock = 0
    /\ LET timestamps == PopExpired(request_timestamps, now - Window)
       IN  /\ request_timestamps' = timestamps
           /\ IF check_request_limit_exceeded(timestamps)
              THEN /\ loc' = [loc EXCEPT ![p].site = "request_limit"]
                   /\ pc' = [pc EXCEPT ![p] = "headers_now"]
              ELSE /\ pc' = [pc EXCEPT ![p] = "increment"]
                   /\ UNCHANGED loc
    /\ UNCHANGED <<args, now, token_usage_timestamps, request_lock, token_lock,
                   resp, stream, sent>>

\* state.increment_request_count()
IncrementRequestCount(p) ==
    /\ pc[p] = "increment"
    /\ request_lock = 0
    /\ request_timestamps' = increment_request_count(request_timestamps, now)
    /\ loc' = [loc EXCEPT ![p].counted = @ + 1]
    /\ pc' = [pc EXCEPT ![p] = "should_error"]
    /\ UNCHANGED <<args, now, token_usage_timestamps, request_lock, token_lock,
                   resp, stream, sent>>

\* if let Some(error_code) = state.should_return_error() { ... }
ShouldReturnError(p) ==
    /\ pc[p] = "should_error"
    /\ \E draw \in 0..(DrawBound - 1) :
          LET decision == should_return_error(draw)
          IN  IF decision # None
              THEN /\ loc' = [loc EXCEPT ![p].site = "fault", ![p].error_code = decision[1]]
                   /\ pc' = [pc EXCEPT ![p] = "headers_now"]
              ELSE /\ pc' = [pc EXCEPT ![p] = "generate"]
                   /\ UNCHANGED loc
    /\ UNCHANGED <<args, now, request_timestamps, token_usage_timestamps,
                   request_lock, token_lock, resp, stream, sent>>

\* if response_length == 0, with every length that yields no word taken as empty
IsNoContentBelowWord(response_length) == response_length < WordLen

\* if response_length == 0 { ... return 204 }
IsNoContent(response_length) == response_length = 0

\* get_response_length, the 204 return, generate_lorem_content and count_tokens
Generate(p) ==
    /\ pc[p] = "generate"
    /\ \E response_length \in get_response_length :
          IF IsNoContent(response_length)
          THEN /\ loc' = [loc EXCEPT ![p].site = "no_content"]
               /\ pc' = [pc EXCEPT ![p] = "headers_now"]
          ELSE LET content == generate_lorem_content(response_length)
               IN  \E prompt_tokens \in 0..MaxPromptTokens,
                      completion_tokens \in TokenCounts(content) :
                      /\ loc' = [loc EXCEPT ![p].response_length = response_length,
                                            ![p].content = content,
                                            ![p].prompt_tokens = prompt_tokens,
                                            ![p].completion_tokens = completion_tokens,
                                            ![p].total_tokens =
                                                prompt_tokens + completion_tokens]
                      /\ pc' = [pc EXCEPT ![p] = "check_token"]
    /\ UNCHANGED <<args, now, request_timestamps, token_usage_timestamps,
                   request_lock, token_lock, resp, stream, sent>>

\* if state.check_token_limit_exceeded(total_tokens) { ... return 429 }
CheckTokenLimit(p) ==
    /\ pc[p] = "check_token"
    /\ token_lock = 0
    /\ LET timestamps == PopExpiredTokens(token_usage_timestamps, now - Window)
       IN  /\ token_usage_timestamps' = timestamps
           /\ IF check_token_limit_exceeded(timestamps, loc[p].total_tokens)
              THEN /\ loc' = [loc EXCEPT ![p].site = "token_limit"]
                   /\ pc' = [pc EXCEPT ![p] = "headers_now"]
              ELSE /\ pc' = [pc EXCEPT ![p] = "add_token"]
                   /\ UNCHANGED loc
    /\ UNCHANGED <<args, now, request_timestamps, request_lock, token_lock,
                   resp, stream, sent>>

\* where the handler goes after add_token_usage: chat_completions returns the
\* event stream at once; every other path takes the header snapshot first
AfterAddTokenUsage(payload) ==
    IF payload.stream
    THEN (IF payload.endpoint = "chat_completions"
          THEN [site |-> "sse", pc |-> "streaming"]
          ELSE [site |-> "sse", pc |-> "headers_now"])
    ELSE [site |-> "json", pc |-> "headers_now"]

\* state.add_token_usage(total_tokens); for a streaming chat completion the
\* events are built and the response is returned
AddTokenUsage(p) ==
    /\ pc[p] = "add_token"
    /\ token_lock = 0
    /\ token_usage_timestamps' =
          add_token_usage(token_usage_timestamps, now, loc[p].total_tokens)
    /\ \E stream_response \in BOOLEAN :
       LET payload == [loc[p].payload EXCEPT !.stream = stream_response]
           next == AfterAddTokenUsage(payload)
           l == [loc[p] EXCEPT !.payload = payload, !.site = next.site,
                               !.tokens_added = @ + loc[p].total_tokens]
       IN  /\ pc' = [pc EXCEPT ![p] = next.pc]
           /\ IF next.pc = "streaming"
              THEN /\ resp' = [resp EXCEPT ![p] = Some(BuildResponse(l))]
                   /\ stream' = [stream EXCEPT ![p] =
                                    ChatStreamEvents(l.content, Usage(l), AsSecs(now))]
              ELSE UNCHANGED <<resp, stream>>
           /\ loc' = [loc EXCEPT ![p] = l]
    /\ UNCHANGED <<args, now, request_timestamps, request_lock, token_lock, sent>>

\* get_rate_limit_headers: let now = SystemTime::now()
HeadersNow(p) ==
    /\ pc[p] = "headers_now"
    /\ loc' = [loc EXCEPT ![p].hdr_now = now]
    /\ pc' = [pc EXCEPT ![p] = "headers_requests"]
    /\ UNCHANGED <<args, now, request_timestamps, token_usage_timestamps,
                   request_lock, token_lock, resp, stream, sent>>

\* get_rate_limit_headers: the request half; the guard is held to the end
HeadersRequests(p) ==
    /\ pc[p] = "headers_requests"
    /\ request_lock = 0
    /\ request_lock' = p
    /\ LET timestamps == PopExpired(request_timestamps, loc[p].hdr_now - Window)
       IN  /\ request_timestamps' = timestamps
           /\ loc' = [loc EXCEPT ![p].headers =
                          Some(RequestHeaders(timestamps, loc[p].hdr_now))]
    /\ pc' = [pc EXCEPT ![p] = "headers_tokens"]
    /\ UNCHANGED <<args, now, token_usage_timestamps, token_lock, resp, stream, sent>>

\* HeadersTokens returning with the request guard never dropped
HeadersTokensKeepsGuard(p) ==
    /\ pc[p] = "headers_tokens"
    /\ request_lock = p
    /\ token_lock = 0
    /\ LET timestamps == PopExpiredTokens(token_usage_timestamps, loc[p].hdr_now - Window)
           headers == loc[p].headers[1] @@ TokenHeaders(timestamps, loc[p].hdr_now)
           l == [loc[p] EXCEPT !.headers = Some(headers)]
       IN  /\ token_usage_timestamps' = timestamps
           /\ resp' = [resp EXCEPT ![p] = Some(BuildResponse(l))]
           /\ loc' = [loc EXCEPT ![p] = IdleLoc]
           /\ pc' = [pc EXCEPT ![p] = "done"]
    /\ UNCHANGED <<args, now, request_timestamps, request_lock, token_lock,
                   stream, sent>>

\* get_rate_limit_headers: the token half, then both guards are dropped and
\* the handler returns its response
HeadersTokens(p) ==
    /\ pc[p] = "headers_tokens"
    /\ request_lock = p
    /\ token_lock = 0
    /\ request_lock' = 0
    /\ LET timestamps == PopExpiredTokens(token_usage_timestamps, loc[p].hdr_now - Window)
           headers == loc[p].headers[1] @@ TokenHeaders(timestamps, loc[p].hdr_now)
           l == [loc[p] EXCEPT !.headers = Some(headers)]
       IN  /\ token_usage_timestamps' = timestamps
           /\ resp' = [resp EXCEPT ![p] = Some(BuildResponse(l))]
           /\ IF l.site = "sse"
              THEN \* responses returns Sse::new(stream): the stream! block owns
                   \* the content and the token counts; the header map is dropped
                   /\ loc' = [loc EXCEPT ![p] =
                                 NewResponsesStream([l EXCEPT !.headers = None,
                                                              !.hdr_now = 0],
                                                    AsSecs(now))]
                   /\ pc' = [pc EXCEPT ![p] = "streaming_responses"]
              ELSE /\ loc' = [loc EXCEPT ![p] = IdleLoc]
                   /\ pc' = [pc EXCEPT ![p] = "done"]
    /\ UNCHANGED <<args, now, request_timestamps, token_lock, stream, sent>>

\* the consumer polls the body of a streaming chat completion: the next
\* event of the vector is sent
EmitEvent(p) ==
    /\ pc[p] = "streaming"
    /\ stream[p] # <<>>
    /\ sent' = [sent EXCEPT ![p] = Append(@, Head(stream[p]))]
    /\ stream' = [stream EXCEPT ![p] = Tail(@)]
    /\ UNCHANGED <<args, now, request_timestamps, token_usage_timestamps,
                   request_lock, token_lock, pc, loc, resp>>

\* the stream is exhausted: the body ends and what it owned is dropped
EndStream(p) ==
    /\ pc[p] = "streaming"
    /\ stream[p] = <<>>
    /\ pc' = [pc EXCEPT ![p] = "done"]
    /\ loc' = [loc EXCEPT ![p] = IdleLoc]
    /\ UNCHANGED <<args, now, request_timestamps, token_usage_timestamps,
                   request_lock, token_lock, resp, stream, sent>>

\* the consumer polls the body of a streaming responses call: the stream!
\* block runs to its next yield and the event is sent
PollResponsesStream(p) ==
    /\ pc[p] = "streaming_responses"
    /\ loc[p].phase # "sentinel"
    /\ LET poll == ResponsesStreamPoll(loc[p])
       IN  /\ sent' = [sent EXCEPT ![p] = Append(@, poll.event)]
           /\ loc' = [loc EXCEPT ![p] = poll.loc]
    /\ UNCHANGED <<args, now, request_timestamps, token_usage_timestamps,
                   request_lock, token_lock, pc, resp, stream>>

\* the stream! block runs off its end after the [DONE] yield: the body ends
EndResponsesStream(p) ==
    /\ pc[p] = "streaming_responses"
    /\ loc[p].phase = "sentinel"
    /\ pc' = [pc EXCEPT ![p] = "done"]
    /\ loc' = [loc EXCEPT ![p] = IdleLoc]
    /\ UNCHANGED <<args, now, request_timestamps, token_usage_timestamps,
                   request_lock, token_lock, resp, stream, sent>>

\* Disconnect with the sentinel flushed when the stream is dropped
DisconnectFlushesSentinel(p) ==
    /\ pc[p] \in {"streaming", "streaming_responses"}
    /\ pc' = [pc EXCEPT ![p] = "cancelled"]
    /\ stream' = [stream EXCEPT ![p] = <<>>]
    /\ loc' = [loc EXCEPT ![p] = IdleLoc]
    /\ sent' = [sent EXCEPT ![p] = Append(@, DoneEvent)]
    /\ UNCHANGED <<args, now, request_timestamps, token_usage_timestamps,
                   request_lock, token_lock, resp>>

\* Disconnect with the tokens of the request taken back off the queue
DisconnectRollsBack(p) ==
    /\ pc[p] \in {"streaming", "streaming_responses"}
    /\ pc' = [pc EXCEPT ![p] = "cancelled"]
    /\ stream' = [stream EXCEPT ![p] = <<>>]
    /\ loc' = [loc EXCEPT ![p] = IdleLoc]
    /\ token_usage_timestamps' =
          SubSeq(token_usage_timestamps, 1, Len(token_usage_timestamps) - 1)
    /\ UNCHANGED <<args, now, request_timestamps, request_lock, token_lock, resp, sent>>

\* the consumer disconnects: the response body, which owns the stream, is
\* dropped and never polled again
Disconnect(p) ==
    /\ pc[p] \in {"streaming", "streaming_responses"}
    /\ pc' = [pc EXCEPT ![p] = "cancelled"]
    /\ stream' = [stream EXCEPT ![p] = <<>>]
    /\ loc' = [loc EXCEPT ![p] = IdleLoc]
    /\ UNCHANGED <<args, now, request_timestamps, token_usage_timestamps,
                   request_lock, token_lock, resp, sent>>

\* the response has been delivered and the task ends
Finish(p) ==
    /\ pc[p] = "done"
    /\ pc' = [pc EXCEPT ![p] = "idle"]
    /\ resp' = [resp EXCEPT ![p] = None]
    /\ sent' = [sent EXCEPT ![p] = <<>>]
    /\ UNCHANGED <<args, now, request_timestamps, token_usage_timestamps,
                   request_lock, token_lock, loc, stream>>

Handler(p) ==
    \/ Start(p)
    \/ CheckRequestLimit(p)
    \/ IncrementRequestCount(p)
    \/ ShouldReturnError(p)
    \/ Generate(p)
    \/ CheckTokenLimit(p)
    \/ AddTokenUsage(p)
    \/ HeadersNow(p)
    \/ HeadersRequests(p)
    \/ HeadersTokens(p)

\* The server: every request is served by a task of its own and the tasks run
\* concurrently.  The command lines are those of ConcurrentArgs.
ConcurrentArgs ==
    { a \in ArgsSet : a.response_length = Some(<<"6">>) /\ a.error_rate # Some(50) }

ConcurrentInit == Init /\ args \in ConcurrentArgs

Next == Tick \/ \E p \in Procs : Handler(p)

Spec == ConcurrentInit /\ [][Next]_vars

\* The concurrent tasks under the scheduling of the runtime: a task that can
\* take a step is eventually run, and a mutex that is free is eventually
\* handed to a task waiting for it.  The clock plays no part in the locking.
NextLocks == \E p \in Procs : Handler(p)

FairLocks == \A p \in Procs : WF_vars(Handler(p))

SpecLocks == ConcurrentInit /\ [][NextLocks]_vars /\ FairLocks

\* Requests handled one after another: the next one arrives when the last one
\* has been answered and its body consumed.
NextSeq ==
    \/ Tick
    \/ Handler(1)
    \/ EmitEvent(1)
    \/ EndStream(1)
    \/ PollResponsesStream(1)
    \/ EndResponsesStream(1)
    \/ Finish(1)

SpecSeq == Init /\ [][NextSeq]_vars

\* The event vector of chat_completions as a function of the content: the
\* handler stands after its token check with a content drawn from Contents.
MaxContentLen == 5

Alphabet == {"a", "b", "c", " "}

Contents == UNION { [1..n -> Alphabet] : n \in 0..MaxContentLen }

InitStreamA ==
    /\ args \in { a \in ArgsSet : a.rpm = MaxRpm /\ a.error_code = None
                                  /\ a.response_length = Some(<<"6">>) }
    /\ now = 0
    /\ request_timestamps = <<0>>
    /\ token_usage_timestamps = <<>>
    /\ request_lock = 0
    /\ token_lock = 0
    /\ pc = [p \in Procs |-> IF p = 1 THEN "add_token" ELSE "idle"]
    /\ \E content \in Contents :
          loc = [p \in Procs |->
                   IF p = 1
                   THEN [IdleLoc EXCEPT
                            !.payload = [endpoint |-> "chat_completions", stream |-> FALSE],
                            !.response_length = Len(content),
                            !.content = content,
                            !.completion_tokens = IF content = <<>> THEN 0 ELSE 1,
                            !.total_tokens = IF content = <<>> THEN 0 ELSE 1,
                            !.counted = 1]
                   ELSE IdleLoc]
    /\ resp = [p \in Procs |-> None]
    /\ stream = [p \in Procs |-> <<>>]
    /\ sent = [p \in Procs |-> <<>>]

NextStreamA == AddTokenUsage(1) \/ EmitEvent(1) \/ EndStream(1)

SpecStreamA == InitStreamA /\ [][NextStreamA]_vars

\* The stream of responses as a function of the content: the handler stands
\* after its token check with a content the generator can return.
MaxStreamLength == 12

StreamContents == { generate_lorem_content(length) : length \in 1..MaxStreamLength }

InitStreamB ==
    /\ args \in { a \in ArgsSet : a.rpm = MaxRpm /\ a.error_code = None
                                  /\ a.response_length = Some(<<"6">>) }
    /\ now = 0
    /\ request_timestamps = <<0>>
    /\ token_usage_timestamps = <<>>
    /\ request_lock = 0
    /\ token_lock = 0
    /\ pc = [p \in Procs |-> IF p = 1 THEN "add_token" ELSE "idle"]
    /\ \E content \in StreamContents, prompt_tokens \in 0..MaxPromptTokens :
       \E completion_tokens \in TokenCounts(content) :
          loc = [p \in Procs |->
                   IF p = 1
                   THEN [IdleLoc EXCEPT
                            !.payload = [endpoint |-> "responses", stream |-> FALSE],
                            !.response_length = Len(content),
                            !.content = content,
                            !.prompt_tokens = prompt_tokens,
                            !.completion_tokens = completion_tokens,
                            !.total_tokens = prompt_tokens + completion_tokens,
                            !.counted = 1]
                   ELSE IdleLoc]
    /\ resp = [p \in Procs |-> None]
    /\ stream = [p \in Procs |-> <<>>]
    /\ sent = [p \in Procs |-> <<>>]

NextStreamB ==
    \/ Tick
    \/ AddTokenUsage(1)
    \/ HeadersNow(1)
    \/ HeadersRequests(1)
    \/ HeadersTokens(1)
    \/ PollResponsesStream(1)
    \/ EndResponsesStream(1)

SpecStreamB == InitStreamB /\ [][NextStreamB]_vars

\* The streams of both endpoints with a consumer that may disconnect.
InitStreams == InitStreamA \/ InitStreamB

NextStreams ==
    \/ AddTokenUsage(1)
    \/ HeadersNow(1)
    \/ HeadersRequests(1)
    \/ HeadersTokens(1)
    \/ EmitEvent(1)
    \/ EndStream(1)
    \/ PollResponsesStream(1)
    \/ EndResponsesStream(1)
    \/ Disconnect(1)

SpecStreams == InitStreams /\ [][NextStreams]_vars

\* One request against a fresh server, for every command line of OnceArgs:
\* the --response-length strings of LengthTable, each with the range it
\* denotes, and every combination of --error-code and --error-rate.
LengthTable ==
    { [str |-> <<"0">>, min |-> 0, max |-> 0],
      [str |-> <<"x">>, min |-> 0, max |-> 0],
      [str |-> <<"3">>, min |-> 3, max |-> 3],
      [str |-> <<"6">>, min |-> 6, max |-> 6],
      [str |-> <<"1", "2">>, min |-> 12, max |-> 12],
      [str |-> <<"0", ":", "5">>, min |-> 0, max |-> 5],
      [str |-> <<"2", ":", "4">>, min |-> 2, max |-> 4],
      [str |-> <<"9", ":", "1", "1">>, min |-> 9, max |-> 11] }

ErrorCodes == {None, Some(503), Some(204), Some(99), Some(1000)}

ErrorRates == {None, Some(0), Some(50), Some(100)}

OnceArgs ==
    { [rpm |-> MaxRpm, tpm |-> MaxTpm, error_code |-> c, error_rate |-> r,
       response_length |-> l] :
      c \in ErrorCodes, r \in ErrorRates,
      l \in {None} \cup {Some(row.str) : row \in LengthTable} }

InitOnce ==
    /\ args \in OnceArgs
    /\ now = 0
    /\ request_timestamps = <<>>
    /\ token_usage_timestamps = <<>>
    /\ request_lock = 0
    /\ token_lock = 0
    /\ pc = [p \in Procs |-> "idle"]
    /\ loc = [p \in Procs |-> IdleLoc]
    /\ resp = [p \in Procs |-> None]
    /\ stream = [p \in Procs |-> <<>>]
    /\ sent = [p \in Procs |-> <<>>]

NextOnce ==
    \/ Handler(1)
    \/ EmitEvent(1)
    \/ EndStream(1)
    \/ PollResponsesStream(1)
    \/ EndResponsesStream(1)

SpecOnce == InitOnce /\ [][NextOnce]_vars

\* The header snapshot as a function of the queues: a request refused by the
\* request check is about to call get_rate_limit_headers, and one of the two
\* queues holds any entries an earlier load can have left there, more than
\* the limit included (concurrent requests can overshoot it).
SortedSeqs(S, n) ==
    { s \in [1..n -> S] : \A i \in 1..(n - 1) : s[i] <= s[i + 1] }

RequestQueues == UNION { SortedSeqs(TimePoints, n) : n \in 0..(MaxRpm + 1) }

TokenQueues ==
    UNION { { [i \in 1..n |-> <<ts[i], am[i]>>] :
              ts \in SortedSeqs(TimePoints, n), am \in [1..n -> 1..MaxTpm] } :
            n \in 0..2 }

HeadersArgs ==
    { a \in ArgsSet : a.error_code = None /\ a.response_length = Some(<<"6">>) }

InitHeaders ==
    /\ args \in HeadersArgs
    /\ \/ request_timestamps \in RequestQueues /\ token_usage_timestamps = <<>>
       \/ request_timestamps = <<>> /\ token_usage_timestamps \in TokenQueues
    /\ now \in TimePoints
    /\ \A i \in DOMAIN request_timestamps : request_timestamps[i] <= now
    /\ \A i \in DOMAIN token_usage_timestamps : token_usage_timestamps[i][1] <= now
    /\ request_lock = 0
    /\ token_lock = 0
    /\ pc = [p \in Procs |-> IF p = 1 THEN "headers_now" ELSE "idle"]
    /\ loc = [p \in Procs |->
                IF p = 1
                THEN [IdleLoc EXCEPT
                         !.payload = [endpoint |-> "chat_completions", stream |-> FALSE],
                         !.site = "request_limit"]
                ELSE IdleLoc]
    /\ resp = [p \in Procs |-> None]
    /\ stream = [p \in Procs |-> <<>>]
    /\ sent = [p \in Procs |-> <<>>]

NextHeaders == Tick \/ HeadersNow(1) \/ HeadersRequests(1) \/ HeadersTokens(1)

SpecHeaders == InitHeaders /\ [][NextHeaders]_vars

\* ------------------------------------------------------------- claims
\* the entries of a queue recorded at or after the cutoff
RequestsSince(timestamps, cutoff) ==
    Cardinality({i \in DOMAIN timestamps : timestamps[i] >= cutoff})

RECURSIVE TokensSince(_, _)
TokensSince(timestamps, cutoff) ==
    IF timestamps = <<>> THEN 0
    ELSE (IF Head(timestamps)[1] >= cutoff THEN Head(timestamps)[2] ELSE 0)
         + TokensSince(Tail(timestamps), cutoff)

Responded(p) == resp[p] # None

HeaderNames ==
    {"limit_requests", "remaining_requests", "reset_requests",
     "limit_tokens", "remaining_tokens", "reset_tokens"}

\* C1: under any interleaving of concurrent requests the number of requests
\* counted inside one window (the last 60 seconds) never exceeds the
\* configured request limit.
C1_RequestCountWithinLimit ==
    RequestsSince(request_timestamps, now - Window) <= args.rpm

\* C2: with requests handled one after another, a request answered while the
\* window holds N = rpm entries of other requests is answered by the
\* request-limit 429, and its headers report 0 remaining requests.
C2_LimitReachedRejects ==
    \A p \in Procs :
        (pc[p] = "done" /\ Responded(p)) =>
            LET r == resp[p][1]
                others == Len(request_timestamps)
                          - (IF r.counted > 0 /\ request_timestamps # <<>> THEN 1 ELSE 0)
            IN  others >= args.rpm =>
                    /\ r.site = "request_limit"
                    /\ r.status = 429
                    /\ r.headers # None
                    /\ r.headers[1].remaining_requests = 0

\* C2 witness: the third request inside one window of a limit of two
C2_Witness ==
    /\ args.rpm = MaxRpm
    /\ pc[1] = "done"
    /\ Responded(1)
    /\ resp[1][1].site = "request_limit"
    /\ resp[1][1].status = 429
    /\ resp[1][1].headers[1].remaining_requests = 0
    /\ Len(request_timestamps) = args.rpm

InWindow(timestamps, cutoff) == SelectSeq(timestamps, LAMBDA e : e >= cutoff)

CheckAfterExpiry(p) ==
    /\ pc[p] = "check_request"
    /\ pc'[p] # pc[p]
    /\ Len(request_timestamps) >= args.rpm
    /\ request_timestamps # <<>>
    /\ Head(request_timestamps) < now - Window

C4_EveryResponseHasHeaders ==
    \A p \in Procs :
        Responded(p) =>
            /\ resp[p][1].headers # None
            /\ DOMAIN resp[p][1].headers[1] = HeaderNames

FaultAlways == args.error_code = Some(503) /\ args.error_rate = Some(100)

Code503 == <<"5", "0", "3">>

\* C5 (as amended): with error_code=503 and error_rate=100, every request
\* that the request-axis quota check does not reject returns status 503 with
\* error.code "503"; a request rejected by that check returns 429.
C5_FaultUnlessRateLimited ==
    FaultAlways =>
        \A p \in Procs :
            Responded(p) =>
                LET r == resp[p][1]
                IN  IF r.site = "request_limit"
                    THEN r.status = 429
                    ELSE /\ r.status = 503
                         /\ r.body.kind = "error"
                         /\ r.body.type = "api_error"
                         /\ r.body.code = Code503

\* C5 (as claimed): with error_code=503 and error_rate=100 every request
\* returns status 503 with error.code "503".
C5_FaultOnEveryAttempt ==
    FaultAlways =>
        \A p \in Procs :
            Responded(p) =>
                /\ resp[p][1].status = 503
                /\ resp[p][1].body.kind = "error"
                /\ resp[p][1].body.code = Code503

C5_Witness ==
    /\ FaultAlways
    /\ Responded(1)
    /\ resp[1][1].status = 503
    /\ resp[1][1].body.code = Code503
    /\ resp[1][1].counted = 1

\* the cutoff of the queue operation a step of handler p performs
StepCutoff(p) ==
    (IF pc[p] \in {"headers_requests", "headers_tokens"} THEN loc[p].hdr_now ELSE now)
    - Window

\* a step that leaves the in-window count of both axes as it was and appends
\* nothing to either queue
CountsKept(p) ==
    /\ RequestsSince(request_timestamps', StepCutoff(p))
          = RequestsSince(request_timestamps, StepCutoff(p))
    /\ Len(request_timestamps') <= Len(request_timestamps)
    /\ TokensSince(token_usage_timestamps', StepCutoff(p))
          = TokensSince(token_usage_timestamps, StepCutoff(p))
    /\ Len(token_usage_timestamps') <= Len(token_usage_timestamps)

\* C6: a request rejected by the request-axis check goes straight to its 429
\* and no step of it, the check and the header snapshot included, changes the
\* in-window count of the request axis or of the token axis.
C6_RequestRejectionCountsNothing ==
    [][\A p \in Procs :
          (/\ pc'[p] # pc[p]
           /\ \/ pc[p] = "check_request" /\ pc'[p] # "increment"
              \/ loc[p].site = "request_limit") =>
             /\ CountsKept(p)
             /\ pc'[p] \in {"headers_now", "headers_requests", "headers_tokens", "done"}
             /\ pc'[p] = "done" =>
                   /\ resp'[p][1].status = 429
                   /\ resp'[p][1].counted = 0
                   /\ resp'[p][1].tokens_added = 0
      ]_vars

C6_Witness ==
    /\ pc[1] = "done"
    /\ Responded(1)
    /\ resp[1][1].site = "request_limit"
    /\ resp[1][1].status = 429
    /\ TokensSince(token_usage_timestamps, now - Window) > 0
    /\ RequestsSince(request_timestamps, now - Window) = args.rpm

\* C7: a request whose token total would exceed the token limit returns 429;
\* no step of it from the token check on changes the in-window count of
\* either axis, so its total is not applied and it stays counted once on the
\* request axis.
C7_TokenRejectionKeepsCounts ==
    [][\A p \in Procs :
          (/\ pc'[p] # pc[p]
           /\ \/ pc[p] = "check_token" /\ pc'[p] # "add_token"
              \/ loc[p].site = "token_limit") =>
             /\ CountsKept(p)
             /\ loc[p].counted = 1
             /\ loc[p].tokens_added = 0
             /\ pc'[p] \in {"headers_now", "headers_requests", "headers_tokens", "done"}
             /\ pc'[p] = "done" =>
                   /\ resp'[p][1].status = 429
                   /\ resp'[p][1].counted = 1
                   /\ resp'[p][1].tokens_added = 0
      ]_vars

C7_Witness ==
    /\ pc[1] = "done"
    /\ Responded(1)
    /\ resp[1][1].site = "token_limit"
    /\ resp[1][1].status = 429
    /\ resp[1][1].counted = 1
    /\ Len(request_timestamps) = 2
    /\ TokensSince(token_usage_timestamps, now - Window) > 0

\* C8: under any interleaving of concurrent requests the sum of the token
\* totals counted inside one window never exceeds the configured token limit.
C8_TokenSumWithinLimit ==
    TokensSince(token_usage_timestamps, now - Window) <= args.tpm

\* C9: for every requested length L > 0 the content generator returns text
\* of exactly L bytes.
C9_ExactLength ==
    \A p \in Procs :
        pc[p] = "check_token" => Len(loc[p].content) = loc[p].response_length

\* the i-th whitespace-delimited word of a text, by the positions where a
\* word starts and ends
WordStarts(text) ==
    {i \in DOMAIN text : text[i] # " " /\ (i = 1 \/ text[i - 1] = " ")}

WordEnds(text) ==
    {i \in DOMAIN text : text[i] # " " /\ (i = Len(text) \/ text[i + 1] = " ")}

NthOf(S, n) == CHOOSE x \in S : Cardinality({y \in S : y <= x}) = n

NthWord(text, n) == SubSeq(text, NthOf(WordStarts(text), n), NthOf(WordEnds(text), n))

FullyConsumedA(p) == pc[p] = "streaming" /\ stream[p] = <<>>

\* C10: a fully consumed Protocol A stream for a content of k words is k + 3
\* events: the role-only event, one delta per word in order, each the word
\* and one trailing space, the finish event with an empty delta, the finish
\* reason and the usage, then [DONE].
C10_ChatStreamShape ==
    \A p \in Procs :
        FullyConsumedA(p) =>
            LET content == loc[p].content
                k == Cardinality(WordStarts(content))
                ev == sent[p]
            IN  /\ Len(ev) = k + 3
                /\ ev[1].delta = [role |-> Some("assistant"), content |-> None]
                /\ ev[1].finish_reason = None
                /\ ev[1].usage = None
                /\ \A i \in 1..k :
                      /\ ev[i + 1].delta =
                            [role |-> None, content |-> Some(NthWord(content, i) \o <<" ">>)]
                      /\ ev[i + 1].finish_reason = None
                      /\ ev[i + 1].usage = None
                /\ ev[k + 2].delta = [role |-> None, content |-> None]
                /\ ev[k + 2].finish_reason = Some("stop")
                /\ ev[k + 2].usage =
                      Some([prompt_tokens |-> loc[p].prompt_tokens,
                            completion_tokens |-> loc[p].completion_tokens,
                            total_tokens |-> loc[p].total_tokens])
                /\ ev[k + 3] = [data |-> "[DONE]"]

\* C10 witness: the six events of the content "a b c"
C10_Witness ==
    /\ FullyConsumedA(1)
    /\ loc[1].content = <<"a", " ", "b", " ", "c">>
    /\ Len(sent[1]) = 6
    /\ sent[1][3].delta.content = Some(<<"b", " ">>)

\* the number of 5-byte pieces of a text, by its length
ChunkCount(text) == (Len(text) + 4) \div 5

\* the event types of a Protocol B stream with d text deltas, the sentinel
\* left out
TypesBefore ==
    << "response.created", "response.in_progress", "response.output_item.added",
       "response.output_item.done", "response.output_item.added",
       "response.content_part.added" >>

TypesAfter ==
    << "response.output_text.done", "response.content_part.done",
       "response.output_item.done", "response.completed" >>

ExpectedTypes(d) ==
    TypesBefore \o [i \in 1..d |-> "response.output_text.delta"] \o TypesAfter

IsSentinel(ev) == ev = [data |-> "[DONE]"]

FullyConsumedB(p) == pc[p] = "streaming_responses" /\ loc[p].phase = "sentinel"

\* C11: a fully consumed Protocol B stream is response.created,
\* response.in_progress, output_item.added and output_item.done of the
\* reasoning item, output_item.added of the message, content_part.added, one
\* output_text.delta per 5-byte chunk, output_text.done, content_part.done,
\* output_item.done of the message, response.completed, then [DONE].
C11_ResponsesStreamOrder ==
    \A p \in Procs :
        FullyConsumedB(p) =>
            LET d == ChunkCount(loc[p].content)
                ev == sent[p]
                types == ExpectedTypes(d)
            IN  /\ Len(ev) = Len(types) + 1
                /\ \A i \in 1..Len(types) : ev[i].type = types[i]
                /\ IsSentinel(ev[Len(ev)])
                /\ ev[3].item.type = "reasoning"
                /\ ev[4].item.type = "reasoning"
                /\ ev[5].item.type = "message"
                /\ ev[d + 9].item.type = "message"

C11_Witness ==
    /\ FullyConsumedB(1)
    /\ Len(loc[1].content) = 12
    /\ Len(sent[1]) = 14
    /\ sent[1][9].type = "response.output_text.delta"
    /\ sent[1][10].type = "response.output_text.done"

\* C12: in a Protocol B stream the i-th event emitted carries sequence number
\* i - 1, whatever the number of text deltas; the [DONE] sentinel, which ends
\* the stream, is the one event that carries none.
C12_SequenceNumbers ==
    \A p \in Procs :
        pc[p] = "streaming_responses" =>
            \A i \in DOMAIN sent[p] :
                IF IsSentinel(sent[p][i])
                THEN i = Len(sent[p]) /\ loc[p].phase = "sentinel"
                ELSE sent[p][i].sequence_number = i - 1

C12_Witness ==
    /\ FullyConsumedB(1)
    /\ Len(sent[1]) = 14
    /\ sent[1][8].type = "response.output_text.delta"
    /\ sent[1][8].sequence_number = 7
    /\ sent[1][13].type = "response.completed"
    /\ sent[1][13].sequence_number = 12

CarriesUsage(ev) ==
    \/ "usage" \in DOMAIN ev /\ ev.usage # None
    \/ "response" \in DOMAIN ev /\ ev.response.usage # None

\* C13: in a Protocol B stream response.completed is the only event that
\* carries a populated usage; the snapshots of response.created and
\* response.in_progress carry none.
C13_UsageOnlyInCompleted ==
    \A p \in Procs :
        pc[p] = "streaming_responses" =>
            \A i \in DOMAIN sent[p] :
                LET ev == sent[p][i]
                IN  /\ CarriesUsage(ev) <=>
                          (~IsSentinel(ev) /\ ev.type = "response.completed")
                    /\ (~IsSentinel(ev)
                        /\ ev.type \in {"response.created", "response.in_progress"})
                          => ev.response.usage = None

C13_Witness ==
    /\ FullyConsumedB(1)
    /\ sent[1][1].type = "response.created"
    /\ sent[1][1].response.usage = None
    /\ sent[1][Len(sent[1]) - 1].type = "response.completed"
    /\ sent[1][Len(sent[1]) - 1].response.usage # None
    /\ sent[1][Len(sent[1]) - 1].response.usage[1].total_tokens
          = loc[1].total_tokens + 128

HasSentinel(events) == \E i \in DOMAIN events : IsSentinel(events[i])

FullyConsumed(p) ==
    \/ pc[p] = "streaming" /\ stream[p] = <<>>
    \/ FullyConsumedB(p)

\* the event the sentinel must follow: the finish event of Protocol A or
\* response.completed of Protocol B
IsFinalEvent(ev, endpoint) ==
    IF endpoint = "chat_completions"
    THEN ~IsSentinel(ev) /\ ev.finish_reason = Some("stop")
    ELSE ~IsSentinel(ev) /\ ev.type = "response.completed"

\* C14: in a fully consumed stream of either protocol [DONE] occurs exactly
\* once, as the last event, directly after the finish event (Protocol A) or
\* response.completed (Protocol B), and once it has been emitted no event is
\* emitted any more.
C14_SentinelOnceAndLast ==
    [][\A p \in Procs :
          /\ FullyConsumed(p) =>
                LET ev == sent[p]
                IN  /\ Len(ev) >= 2
                    /\ Cardinality({i \in DOMAIN ev : IsSentinel(ev[i])}) = 1
                    /\ IsSentinel(ev[Len(ev)])
                    /\ IsFinalEvent(ev[Len(ev) - 1], loc[p].payload.endpoint)
          /\ HasSentinel(sent[p]) => sent'[p] = sent[p]
      ]_vars

C14_Witness ==
    /\ pc[1] = "done"
    /\ Len(sent[1]) >= 12
    /\ IsSentinel(sent[1][Len(sent[1])])
    /\ IsFinalEvent(sent[1][Len(sent[1]) - 1], "responses")

\* the kinds of the events of a full stream of the endpoint for the content,
\* in order
ExpectedKinds(endpoint, content) ==
    IF endpoint = "chat_completions"
    THEN <<"role">> \o [i \in 1..Cardinality(WordStarts(content)) |-> "delta"]
         \o <<"finish", "[DONE]">>
    ELSE ExpectedTypes(ChunkCount(content)) \o <<"[DONE]">>

EventKind(ev) ==
    IF IsSentinel(ev) THEN "[DONE]"
    ELSE IF "type" \in DOMAIN ev THEN ev.type
    ELSE IF ev.delta.role # None THEN "role"
    ELSE IF ev.finish_reason # None THEN "finish"
    ELSE "delta"

IsPrefixOfKinds(events, kinds) ==
    /\ Len(events) <= Len(kinds)
    /\ \A i \in DOMAIN events : EventKind(events[i]) = kinds[i]

Streaming(p) == pc[p] \in {"streaming", "streaming_responses"}

\* C15: when the consumer disconnects from a stream, the events emitted so
\* far are a prefix of the full ordered sequence, the disconnection itself
\* emits nothing, and afterwards no event is emitted: a stream left before
\* its [DONE] never emits it.
C15_DisconnectStopsStream ==
    [][\A p \in Procs :
          /\ (Streaming(p) /\ pc'[p] = "cancelled") =>
                /\ IsPrefixOfKinds(sent[p],
                                   ExpectedKinds(loc[p].payload.endpoint, loc[p].content))
                /\ sent'[p] = sent[p]
          /\ pc[p] = "cancelled" => (pc'[p] = "cancelled" /\ sent'[p] = sent[p])
      ]_vars

C15_Witness ==
    /\ pc[1] = "cancelled"
    /\ Len(sent[1]) = 7
    /\ sent[1][7].type = "response.output_text.delta"
    /\ ~HasSentinel(sent[1])

\* the range the configured --response-length denotes
LengthRow == CHOOSE row \in LengthTable : args.response_length = Some(row.str)

FixedLength == args.response_length # None /\ LengthRow.min = LengthRow.max

NoFaultConfigured == args.error_code = None \/ args.error_rate = None

\* a response of the non-streaming branch of the endpoint that no quota
\* check rejected
NonStreaming(p, endpoint) ==
    /\ Responded(p)
    /\ resp[p][1].endpoint = endpoint
    /\ resp[p][1].site \notin {"sse", "request_limit", "token_limit"}

\* C16: with a fixed non-zero response length L, no fault configured and no
\* quota exhausted, a non-streaming chat request returns 200 with a
\* choices[0].message.content of L bytes and total_tokens = prompt_tokens +
\* completion_tokens.
C16_ChatSuccess ==
    \A p \in Procs :
        (/\ FixedLength /\ LengthRow.min > 0 /\ NoFaultConfigured
         /\ NonStreaming(p, "chat_completions")) =>
            LET r == resp[p][1]
            IN  /\ r.status = 200
                /\ r.site = "json"
                /\ Len(r.body.choices[1].message.content) = LengthRow.min
                /\ r.body.usage.total_tokens =
                      r.body.usage.prompt_tokens + r.body.usage.completion_tokens

\* C17: with a fixed non-zero response length, no fault configured and no
\* quota exhausted, a non-streaming responses request returns 200 with a body
\* of status "completed", exactly one output item, a completed message whose
\* one part holds the full generated text, and a usage with total_tokens =
\* input_tokens + output_tokens.
C17_ResponsesSuccess ==
    \A p \in Procs :
        (/\ FixedLength /\ LengthRow.min > 0 /\ NoFaultConfigured
         /\ NonStreaming(p, "responses")) =>
            LET r == resp[p][1]
            IN  /\ r.status = 200
                /\ r.site = "json"
                /\ r.body.status = "completed"
                /\ Len(r.body.output) = 1
                /\ r.body.output[1].type = "message"
                /\ r.body.output[1].status = "completed"
                /\ Len(r.body.output[1].content) = 1
                /\ r.body.output[1].content[1].text =
                      generate_lorem_content(LengthRow.min)
                /\ r.body.usage # None
                /\ r.body.usage[1].total_tokens =
                      r.body.usage[1].input_tokens + r.body.usage[1].output_tokens
                /\ r.tokens_added = r.body.usage[1].total_tokens

C17_Witness ==
    /\ args.response_length = Some(<<"1", "2">>)
    /\ NoFaultConfigured
    /\ NonStreaming(1, "responses")
    /\ resp[1][1].status = 200
    /\ Len(resp[1][1].body.output[1].content[1].text) = 12
    /\ resp[1][1].body.usage[1].total_tokens = 3

\* the step of handler p that resolves the content length
Resolves(p) == pc[p] = "generate" /\ pc'[p] # pc[p]

\* C18: the handler returns 204 with an empty JSON body exactly when the
\* resolved content length is 0: a configuration that can only resolve to 0
\* always does, one that cannot resolve to 0 always goes on to generate the
\* content of the resolved length, and the 204 counts the request once and
\* adds nothing to the token axis.
C18_NoContentIffZero ==
    [][\A p \in Procs :
          /\ Resolves(p) =>
                LET zero == args.response_length = None \/ LengthRow.max = 0
                    nonzero == args.response_length # None /\ LengthRow.min > 0
                IN  /\ pc'[p] \in {"headers_now", "check_token"}
                    /\ zero => pc'[p] = "headers_now"
                    /\ nonzero => pc'[p] = "check_token"
                    /\ pc'[p] = "headers_now" =>
                          /\ ~nonzero
                          /\ loc'[p].site = "no_content"
                          /\ loc'[p].content = <<>>
                          /\ token_usage_timestamps' = token_usage_timestamps
                    /\ pc'[p] = "check_token" =>
                          /\ ~zero
                          /\ loc'[p].response_length > 0
                          /\ loc'[p].content =
                                generate_lorem_content(loc'[p].response_length)
          /\ (pc'[p] = "done" /\ pc[p] # "done" /\ Responded(p)') =>
                LET r == resp'[p][1]
                IN  /\ (r.status = 204 /\ r.body = [kind |-> "empty"])
                          <=> (r.site = "no_content")
                    /\ r.site = "no_content" =>
                          /\ r.counted = 1
                          /\ r.tokens_added = 0
      ]_vars

C18_Witness ==
    /\ args.response_length = Some(<<"0", ":", "5">>)
    /\ pc[1] = "done"
    /\ Responded(1)
    /\ resp[1][1].status = 204
    /\ resp[1][1].counted = 1
    /\ request_timestamps = <<0>>
    /\ token_usage_timestamps = <<>>

\* C19: for a configured range min:max with min <= max the length resolver
\* returns a value between min and max, both included, and for a configured
\* fixed integer it returns that integer.
C19_LengthWithinRange ==
    [][\A p \in Procs :
          (Resolves(p) /\ args.response_length # None) =>
              LET v == IF pc'[p] = "check_token" THEN loc'[p].response_length ELSE 0
              IN  LengthRow.min <= v /\ v <= LengthRow.max
      ]_vars

C19_Witness ==
    /\ args.response_length = Some(<<"9", ":", "1", "1">>)
    /\ pc[1] = "check_token"
    /\ loc[1].response_length = 11

\* the step of handler p that takes the fault decision
Decides(p) == pc[p] = "should_error" /\ pc'[p] # pc[p]

\* C20: the fault decision returns the configured code on every call when a
\* code is configured and the probability is 100, on no call when the
\* probability is 0, and no code whenever the code or the probability is not
\* configured.
C20_FaultDecision ==
    [][\A p \in Procs :
          Decides(p) =>
              LET returned == IF pc'[p] = "headers_now" /\ loc'[p].site = "fault"
                              THEN Some(loc'[p].error_code)
                              ELSE None
              IN  /\ pc'[p] \in {"headers_now", "generate"}
                  /\ pc'[p] = "generate" => loc'[p].site # "fault"
                  /\ (args.error_code # None /\ args.error_rate = Some(100)) =>
                        returned = args.error_code
                  /\ args.error_rate = Some(0) => returned = None
                  /\ (args.error_code = None \/ args.error_rate = None) =>
                        returned = None
      ]_vars

C20_Witness ==
    /\ args.error_code = Some(503)
    /\ args.error_rate = Some(100)
    /\ pc[1] = "headers_now"
    /\ loc[1].site = "fault"
    /\ loc[1].error_code = 503

\* the header snapshot is taken in two steps, the request half and then the
\* token half, both against the clock reading loc[p].hdr_now
TakesRequestHalf(p) == pc[p] = "headers_requests" /\ pc'[p] = "headers_tokens"

TakesTokenHalf(p) ==
    pc[p] = "headers_tokens" /\ pc'[p] # "headers_tokens" /\ resp'[p][1].headers # None

\* max(0, limit - count)
RemainingOf(limit, count) == IF count <= limit THEN limit - count ELSE 0

\* C21: in every header snapshot the remaining budget of each axis is
\* max(0, limit - count) for the axis's in-window count at the snapshot's
\* clock reading: limit - count while count <= limit, 0 otherwise, never
\* below zero.
C21_RemainingSaturates ==
    [][\A p \in Procs :
          /\ TakesRequestHalf(p) =>
                loc'[p].headers[1].remaining_requests =
                    RemainingOf(args.rpm,
                                RequestsSince(request_timestamps,
                                              loc[p].hdr_now - Window))
          /\ TakesTokenHalf(p) =>
                resp'[p][1].headers[1].remaining_tokens =
                    RemainingOf(args.tpm,
                                TokensSince(token_usage_timestamps,
                                            loc[p].hdr_now - Window))
      ]_vars

\* C21 witness: a snapshot taken with more requests in the window than the
\* limit allows reports 0 remaining requests
C21_Witness ==
    /\ pc[1] = "done"
    /\ Responded(1)
    /\ Len(request_timestamps) > args.rpm
    /\ resp[1][1].headers[1].remaining_requests = 0
    /\ resp[1][1].headers[1].remaining_tokens = args.tpm

\* secs is the whole-second floor of the duration
IsFloorSeconds(secs, duration) ==
    /\ secs * TicksPerSecond <= duration
    /\ duration < (secs + 1) * TicksPerSecond

OldestOf(S) == CHOOSE x \in S : \A y \in S : x <= y

RequestTimesSince(timestamps, cutoff) ==
    { timestamps[i] : i \in { j \in DOMAIN timestamps : timestamps[j] >= cutoff } }

TokenTimesSince(timestamps, cutoff) ==
    { timestamps[i][1] : i \in { j \in DOMAIN timestamps : timestamps[j][1] >= cutoff } }

\* the reset time an axis reports for its in-window entries: 0 below the
\* limit, else the floor of the time until the oldest entry is 60 seconds old
ResetWhenLimited(reset, times, count, limit, t) ==
    /\ count < limit => reset = 0
    /\ (count >= limit /\ times # {}) =>
          IsFloorSeconds(reset, OldestOf(times) + Window - t)

\* C22 (amended): in every header snapshot the reset time of an axis is 0
\* while the axis's in-window count is below its limit; once the count has
\* reached the limit it is the whole-second floor of the duration from now
\* until the oldest in-window entry is 60 seconds old.
C22_ResetWhenLimited ==
    [][\A p \in Procs :
          /\ TakesRequestHalf(p) =>
                LET cutoff == loc[p].hdr_now - Window
                IN  ResetWhenLimited(loc'[p].headers[1].reset_requests,
                                     RequestTimesSince(request_timestamps, cutoff),
                                     RequestsSince(request_timestamps, cutoff),
                                     args.rpm, loc[p].hdr_now)
          /\ TakesTokenHalf(p) =>
                LET cutoff == loc[p].hdr_now - Window
                IN  ResetWhenLimited(resp'[p][1].headers[1].reset_tokens,
                                     TokenTimesSince(token_usage_timestamps, cutoff),
                                     TokensSince(token_usage_timestamps, cutoff),
                                     args.tpm, loc[p].hdr_now)
      ]_vars

\* C22 as stated: the reset time is the floor of the duration until the
\* window that began with the oldest in-window entry ends, whatever the count
C22_ResetWhateverCount ==
    [][\A p \in Procs :
          /\ TakesRequestHalf(p) =>
                LET times == RequestTimesSince(request_timestamps,
                                               loc[p].hdr_now - Window)
                IN  times # {} =>
                        IsFloorSeconds(loc'[p].headers[1].reset_requests,
                                       OldestOf(times) + Window - loc[p].hdr_now)
          /\ TakesTokenHalf(p) =>
                LET times == TokenTimesSince(token_usage_timestamps,
                                             loc[p].hdr_now - Window)
                IN  times # {} =>
                        IsFloorSeconds(resp'[p][1].headers[1].reset_tokens,
                                       OldestOf(times) + Window - loc[p].hdr_now)
      ]_vars

\* C22 witness: a snapshot of a request axis at its limit, taken half a
\* second after the oldest entry, reports 59 seconds
C22_Witness ==
    /\ pc[1] = "done"
    /\ Responded(1)
    /\ Len(request_timestamps) >= args.rpm
    /\ resp[1][1].headers[1].remaining_requests = 0
    /\ resp[1][1].headers[1].reset_requests = WindowSeconds - 1

\* C23: the fault decision is taken only after the request has been counted:
\* when the handler draws the decision its request is on the request queue,
\* and a request answered with a simulated fault has been counted exactly
\* once on the request axis and has added nothing to the token axis.
C23_FaultAfterCount ==
    \A p \in Procs :
        /\ pc[p] = "should_error" =>
              /\ loc[p].counted = 1
              /\ request_timestamps = <<now>>
        /\ (Responded(p) /\ resp[p][1].site = "fault") =>
              /\ resp[p][1].counted = 1
              /\ resp[p][1].tokens_added = 0
              /\ Len(request_timestamps) = 1
              /\ token_usage_timestamps = <<>>

\* C23 witness: a request answered with the configured 503
C23_Witness ==
    /\ Responded(1)
    /\ resp[1][1].site = "fault"
    /\ resp[1][1].status = 503
    /\ resp[1][1].counted = 1
    /\ request_timestamps = <<0>>

\* C24: once a streaming response has started the stream leaves the quota
\* state alone: emitting an event, finishing the stream or cancelling it
\* mid-stream changes neither the request queue nor the token queue.
C24_StreamLeavesQuota ==
    [][\A p \in Procs :
          Streaming(p) =>
              /\ request_timestamps' = request_timestamps
              /\ token_usage_timestamps' = token_usage_timestamps
      ]_vars

\* C24 witness: a stream cancelled after some events, with the request and
\* its tokens still counted
C24_Witness ==
    /\ pc[1] = "cancelled"
    /\ Len(sent[1]) >= 3
    /\ ~HasSentinel(sent[1])
    /\ request_timestamps = <<0>>
    /\ Len(token_usage_timestamps) = 1
    /\ token_usage_timestamps[1][2] > 0

\* a step of handler p out of the position at
Leaves(p, at) == pc[p] = at /\ pc'[p] # at

NoneBefore(times, cutoff) == \A t \in times : t >= cutoff

\* C25: every quota check, every count and every header snapshot first
\* discards the entries older than the window: the allowed/refused decision
\* of each axis and the reported remaining values are those of the in-window
\* entries alone, and after a count or a snapshot the queue holds no entry
\* recorded before the window.
C25_ExpiredDiscardedFirst ==
    [][\A p \in Procs :
          LET cutoff == StepCutoff(p)
              all_requests == { request_timestamps'[i] : i \in DOMAIN request_timestamps' }
              all_tokens ==
                  { token_usage_timestamps'[i][1] : i \in DOMAIN token_usage_timestamps' }
          IN  /\ Leaves(p, "check_request") =>
                    (pc'[p] = "headers_now"
                        <=> RequestsSince(request_timestamps, cutoff) + 1 > args.rpm)
              /\ Leaves(p, "check_token") =>
                    (pc'[p] = "headers_now"
                        <=> TokensSince(token_usage_timestamps, cutoff)
                              + loc[p].total_tokens > args.tpm)
              /\ Leaves(p, "increment") =>
                    /\ NoneBefore(all_requests, cutoff)
                    /\ Len(request_timestamps')
                          = RequestsSince(request_timestamps, cutoff) + 1
              /\ Leaves(p, "add_token") =>
                    /\ NoneBefore(all_tokens, cutoff)
                    /\ SumTokens(token_usage_timestamps')
                          = TokensSince(token_usage_timestamps, cutoff)
                              + loc[p].total_tokens
              /\ TakesRequestHalf(p) =>
                    /\ NoneBefore(all_requests, cutoff)
                    /\ loc'[p].headers[1].remaining_requests =
                          RemainingOf(args.rpm,
                                      RequestsSince(request_timestamps, cutoff))
              /\ Leaves(p, "headers_tokens") =>
                    /\ NoneBefore(all_tokens, cutoff)
                    /\ resp'[p][1].headers # None =>
                          resp'[p][1].headers[1].remaining_tokens =
                              RemainingOf(args.tpm,
                                          TokensSince(token_usage_timestamps, cutoff))
      ]_vars

\* C25 witness: a request refused while the window was full takes its
\* snapshot a window later: the request half has discarded every entry and
\* reports the whole budget, the expired token entries are next
C25_Witness ==
    /\ pc[1] = "headers_tokens"
    /\ loc[1].site = "request_limit"
    /\ request_timestamps = <<>>
    /\ loc[1].headers[1].remaining_requests = args.rpm
    /\ token_usage_timestamps # <<>>
    /\ token_usage_timestamps[1][1] < loc[1].hdr_now - Window

\* the events of the given type among those sent, in emission order
EventsOfType(events, type) ==
    SelectSeq(events, LAMBDA ev : ~IsSentinel(ev) /\ ev.type = type)

RECURSIVE ConcatDeltas(_)
ConcatDeltas(events) ==
    IF events = <<>> THEN <<>>
    ELSE Head(events).delta \o ConcatDeltas(Tail(events))

\* C26: a fully consumed Protocol B stream for content of L bytes has exactly
\* ceil(L/5) text-delta events, each of 5 bytes except possibly the last
\* (1 to 5 bytes); the deltas concatenated in emission order are the full
\* content, which is also the text of the one response.output_text.done.
C26_DeltasCarryContent ==
    \A p \in Procs :
        FullyConsumedB(p) =>
            LET content == loc[p].content
                deltas == EventsOfType(sent[p], "response.output_text.delta")
                done == EventsOfType(sent[p], "response.output_text.done")
                d == Len(deltas)
            IN  /\ 5 * d >= Len(content)
                /\ 5 * (d - 1) < Len(content)
                /\ \A i \in 1..(d - 1) : Len(deltas[i].delta) = 5
                /\ d > 0 => Len(deltas[d].delta) \in 1..5
                /\ ConcatDeltas(deltas) = content
                /\ Len(done) = 1
                /\ done[1].text = content

\* C26 witness: 12 bytes streamed as 5 + 5 + 2
C26_Witness ==
    /\ FullyConsumedB(1)
    /\ Len(loc[1].content) = 12
    /\ Len(EventsOfType(sent[1], "response.output_text.delta")) = 3
    /\ Len(sent[1][7].delta) = 5
    /\ Len(sent[1][9].delta) = 2

\* what the snapshots carried by the events sent so far must look like
SnapshotsOf(events, content) ==
    \A i \in DOMAIN events :
        LET ev == events[i]
        IN  /\ (~IsSentinel(ev)
                /\ ev.type \in {"response.created", "response.in_progress"}) =>
                  /\ ev.response.status = "in_progress"
                  /\ ev.response.output = <<>>
            /\ (~IsSentinel(ev) /\ ev.type = "response.completed") =>
                  /\ ev.response.status = "completed"
                  /\ Len(ev.response.output) = 2
                  /\ ev.response.output[1].type = "reasoning"
                  /\ ev.response.output[2].type = "message"
                  /\ ev.response.output[2].status = "completed"
                  /\ Len(ev.response.output[2].content) = 1
                  /\ ev.response.output[2].content[1].type = "output_text"
                  /\ ev.response.output[2].content[1].text = content

\* C27: in a Protocol B stream the shared response snapshot only
\* accumulates: no step of the stream removes or replaces an output item by
\* one of another type; the snapshots in response.created and
\* response.in_progress have status in_progress and an empty output list;
\* the snapshot in response.completed has status completed and output
\* exactly [reasoning item, message item], the message completed with one
\* content part holding the full generated text.
C27_SnapshotAccumulates ==
    [][\A p \in Procs :
          pc'[p] = "streaming_responses" =>
              /\ SnapshotsOf(sent'[p], loc'[p].content)
              /\ pc[p] = "streaming_responses" =>
                    LET old == loc[p].response.output
                        new == loc'[p].response.output
                    IN  /\ Len(old) <= Len(new)
                        /\ \A i \in DOMAIN old : new[i].type = old[i].type
      ]_vars

\* C27 witness: a consumed stream whose response.completed holds the
\* reasoning item and the completed message with the 12 bytes of text
C27_Witness ==
    /\ FullyConsumedB(1)
    /\ Len(sent[1]) = 14
    /\ sent[1][1].response.output = <<>>
    /\ sent[1][13].type = "response.completed"
    /\ Len(sent[1][13].response.output) = 2
    /\ Len(sent[1][13].response.output[2].content[1].text) = 12

\* the usage records of the response.completed events among those sent
CompletedUsages(events) ==
    { ev.response.usage : ev \in { events[i] : i \in
          { j \in DOMAIN events : ~IsSentinel(events[j])
                                  /\ events[j].type = "response.completed" } } }

\* C28: in a Protocol B stream the usage of response.completed has
\* reasoning_tokens = 128, output_tokens = completion tokens + 128 and
\* total_tokens = input_tokens + output_tokens, while the amount the request
\* puts on the token queue is prompt tokens + completion tokens, without
\* the 128.
C28_SurchargeNotCounted ==
    [][\A p \in Procs :
          /\ (Leaves(p, "add_token") /\ loc[p].payload.endpoint = "responses") =>
                LET added == token_usage_timestamps'[Len(token_usage_timestamps')]
                IN  /\ added[2] = loc[p].prompt_tokens + loc[p].completion_tokens
                    /\ loc'[p].tokens_added = added[2]
          /\ pc'[p] = "streaming_responses" =>
                \A usage \in CompletedUsages(sent'[p]) :
                    /\ usage # None
                    /\ usage[1].reasoning_tokens = 128
                    /\ usage[1].input_tokens = loc'[p].prompt_tokens
                    /\ usage[1].output_tokens = loc'[p].completion_tokens + 128
                    /\ usage[1].total_tokens
                          = usage[1].input_tokens + usage[1].output_tokens
                    /\ resp'[p][1].tokens_added = usage[1].total_tokens - 128
      ]_vars

\* C28 witness: a consumed stream whose usage counts 128 tokens more than
\* the request put on the token queue
C28_Witness ==
    /\ FullyConsumedB(1)
    /\ resp[1][1].tokens_added > 0
    /\ \E usage \in CompletedUsages(sent[1]) :
          /\ usage[1].total_tokens = resp[1][1].tokens_added + 128
          /\ usage[1].output_tokens > 128
          /\ usage[1].input_tokens > 0

\* the configured numbers that are no HTTP status code, as they are written
InvalidCodeStrings ==
    { [code |-> 99, str |-> <<"9", "9">>],
      [code |-> 1000, str |-> <<"1", "0", "0", "0">>] }

\* C29: when the configured error code is not a valid HTTP status code, a
\* simulated fault is answered with status 500, and its error envelope has
\* type "api_error" and code equal to the configured number written as a
\* string.
C29_InvalidCodeIs500 ==
    \A p \in Procs :
        \A row \in InvalidCodeStrings :
            (Responded(p) /\ resp[p][1].site = "fault"
             /\ args.error_code = Some(row.code)) =>
                /\ resp[p][1].status = 500
                /\ resp[p][1].body.kind = "error"
                /\ resp[p][1].body.type = "api_error"
                /\ resp[p][1].body.code = row.str

\* C29 witness: the fault of a server started with --error-code 1000
C29_Witness ==
    /\ args.error_code = Some(1000)
    /\ Responded(1)
    /\ resp[1][1].site = "fault"
    /\ resp[1][1].status = 500
    /\ resp[1][1].body.code = <<"1", "0", "0", "0">>

\* the return sites reached after increment_request_count whose response
\* carries the header snapshot
CountedSites == {"fault", "no_content", "token_limit", "json"}

\* C30 (amended): every response emitted after the request has been counted
\* on the request axis (simulated fault, 204, token-quota 429, non-streaming
\* success) reports a remaining request budget of at most limit - 1,
\* provided its header snapshot is taken no more than 60 seconds after the
\* request was counted: the snapshot then still includes that request's own
\* count.  With requests handled one after another the request's own entry
\* is the last of the queue.
C30_OwnCountInSnapshot ==
    [][\A p \in Procs :
          (/\ TakesRequestHalf(p)
           /\ loc[p].counted = 1
           /\ loc[p].site \in CountedSites
           /\ request_timestamps # <<>>
           /\ request_timestamps[Len(request_timestamps)]
                 >= loc[p].hdr_now - Window) =>
              loc'[p].headers[1].remaining_requests <= args.rpm - 1
      ]_vars

\* C30 as stated: whenever the snapshot is taken
C30_RemainingBelowLimit ==
    \A p \in Procs :
        (Responded(p) /\ resp[p][1].counted = 1
         /\ resp[p][1].site \in CountedSites) =>
            resp[p][1].headers[1].remaining_requests <= args.rpm - 1

\* C30 witness: the one request of the window is answered 200 with one
\* request less than the limit remaining
C30_Witness ==
    /\ pc[1] = "done"
    /\ Responded(1)
    /\ resp[1][1].site = "json"
    /\ resp[1][1].counted = 1
    /\ Len(request_timestamps) = 1
    /\ resp[1][1].headers[1].remaining_requests = args.rpm - 1

\* which handler positions hold which guard: the request guard is held from
\* the request half of the snapshot to the end of its token half, and the
\* token guard is only ever taken by a task that holds the request guard
LockDiscipline ==
    /\ request_lock # 0 =>
          (request_lock \in Procs /\ pc[request_lock] = "headers_tokens")
    /\ token_lock # 0 => token_lock = request_lock
    /\ \A p \in Procs : pc[p] = "headers_tokens" => request_lock = p

\* C31: no interleaving of concurrent requests deadlocks on the two quota
\* locks: only the header snapshot holds the request lock while it takes
\* the token lock, every other operation holds at most one lock, and every
\* request that starts eventually gets its response.
C31_NoDeadlock ==
    /\ []LockDiscipline
    /\ \A p \in Procs : (pc[p] = "check_request") ~> Responded(p)

\* C31 witness: a task holds the request guard inside its snapshot while
\* the other task stands before an operation that needs it
C31_Witness ==
    /\ request_lock = 1
    /\ pc[1] = "headers_tokens"
    /\ pc[2] \in {"check_request", "increment", "headers_requests"}

\* the entries of the queue recorded in the 60 seconds that end at time t
RequestsWithin(timestamps, t) ==
    Cardinality({ j \in DOMAIN timestamps :
                    timestamps[j] >= t - Window /\ timestamps[j] <= t })

NonDecreasing(times) ==
    \A i \in DOMAIN times : \A j \in DOMAIN times : i <= j => times[i] <= times[j]

TokenTimes(timestamps) == [i \in DOMAIN timestamps |-> timestamps[i][1]]

\* the handler positions whose step discards from the front of a queue
RequestQueueSteps == {"check_request", "increment", "headers_requests"}

TokenQueueSteps == {"check_token", "add_token", "headers_tokens"}

\* C33: after any interleaving of the counting and header-snapshot
\* operations of concurrent requests the timestamps of each queue are in
\* non-decreasing order from front to back, and an operation that discards
\* expired entries from the front only leaves no entry behind that is older
\* than its cutoff.
C33_QueuesInTimeOrder ==
    [][/\ NonDecreasing(request_timestamps')
       /\ NonDecreasing(TokenTimes(token_usage_timestamps'))
       /\ \A p \in Procs :
             /\ (pc[p] \in RequestQueueSteps /\ pc'[p] # pc[p]) =>
                   \A i \in DOMAIN request_timestamps' :
                       request_timestamps'[i] >= StepCutoff(p)
             /\ (pc[p] \in TokenQueueSteps /\ pc'[p] # pc[p]) =>
                   \A i \in DOMAIN token_usage_timestamps' :
                       token_usage_timestamps'[i][1] >= StepCutoff(p)
      ]_vars

\* C33 witness: two concurrent requests counted at different times on both
\* axes, one of them already answered with its snapshot
C33_Witness ==
    /\ Len(request_timestamps) = 2
    /\ request_timestamps[1] < request_timestamps[2]
    /\ Len(token_usage_timestamps) = 2
    /\ token_usage_timestamps[1][1] < token_usage_timestamps[2][1]
    /\ pc[1] = "done"
    /\ Responded(1)
    /\ resp[1][1].headers # None
    /\ pc[2] = "headers_now"

====
